---- MODULE Spec2Model ----
(***************************************************************************)
(* State-machine model of the intelligence layer of MCPGen: the response   *)
(* caches (MemoryCache, SemanticCache) and their key derivation, the       *)
(* OpenAPIMinifier, and the enhancement orchestrator (IntelligenceService  *)
(* with its DocumentationGenerator and ExampleGenerator).                  *)
(***************************************************************************)
EXTENDS Integers, Sequences, FiniteSets, TLC

(***************************************************************************)
(* Bounds of the model.                                                    *)
(***************************************************************************)
\* The clock (Date.now(), in ms) runs from 0 to MaxTime.
MaxTime == 2
\* At most MaxRequests get calls are made on one cache instance.
MaxRequests == 2
\* MemoryCache constructor parameters (maxSize, defaultTTL), chosen small.
MemMaxSize == 2
MemDefaultTTL == 2
\* SemanticCache constructor parameter defaultTTL, chosen small.
SemDefaultTTL == 2

\* A nullable value: Null, or Some(v).
Null == <<>>
Some(v) == <<v>>

(***************************************************************************)
(* Cache keys.  A prompt is a sequence of characters; generateKey hashes   *)
(* the JSON of {normalized prompt, model, temperature, ...params}.  The    *)
(* digest is taken as collision-free, so the key is the hashed text.       *)
(***************************************************************************)
IsSpace(c) == c \in {" ", "\t"}

ToLower(c) == IF c = "A" THEN "a" ELSE IF c = "B" THEN "b" ELSE IF c = "C" THEN "c" ELSE c

RECURSIVE TrimLeft(_)
TrimLeft(s) == IF s # <<>> /\ IsSpace(Head(s)) THEN TrimLeft(Tail(s)) ELSE s

RECURSIVE TrimRight(_)
TrimRight(s) ==
  IF s # <<>> /\ IsSpace(s[Len(s)]) THEN TrimRight(SubSeq(s, 1, Len(s) - 1)) ELSE s

\* replace(/\s+/g, ' '): every run of whitespace becomes one blank.
RECURSIVE CollapseSpaces(_)
CollapseSpaces(s) ==
  IF s = <<>> THEN <<>>
  ELSE IF IsSpace(Head(s))
       THEN <<" ">> \o CollapseSpaces(TrimLeft(Tail(s)))
       ELSE <<Head(s)>> \o CollapseSpaces(Tail(s))

LowerCase(s) == [i \in 1..Len(s) |-> ToLower(s[i])]

NormalizePrompt(prompt) == LowerCase(CollapseSpaces(TrimRight(TrimLeft(prompt))))

DefaultTemperature == 7   \* 0.7, in tenths

\* An object is the list of its members <<name, value>> in insertion order.
\* Spreading a member into an object: a name the object has keeps its place
\* and takes the new value, a new name goes last.
PutMember(obj, m) ==
  IF \E i \in 1..Len(obj) : obj[i][1] = m[1]
  THEN [i \in 1..Len(obj) |-> IF obj[i][1] = m[1] THEN m ELSE obj[i]]
  ELSE Append(obj, m)

RECURSIVE SpreadInto(_, _)
SpreadInto(obj, params) ==
  IF params = <<>> THEN obj
  ELSE SpreadInto(PutMember(obj, Head(params)), Tail(params))

\* keyData = {prompt: normalizePrompt(prompt), model, temperature,
\* ...additionalParams}
KeyData(prompt, model, temperature, additionalParams) ==
  SpreadInto(<< <<"prompt", NormalizePrompt(prompt)>>, <<"model", model>>,
                <<"temperature", temperature>> >>, additionalParams)

\* Mutant: the prompt is hashed as given.
GenerateKeyWith_rawPrompt(prompt, model, temperature, additionalParams) ==
  SpreadInto(<< <<"prompt", prompt>>, <<"model", model>>,
                <<"temperature", temperature>> >>, additionalParams)

\* sha256 of JSON.stringify(keyData): the text lists the members in order.
GenerateKeyWith(prompt, model, temperature, additionalParams) ==
  KeyData(prompt, model, temperature, additionalParams)

\* generateKey without additionalParams.
GenerateKey(prompt, model, temperature) ==
  GenerateKeyWith(prompt, model, temperature, <<>>)

(***************************************************************************)
(* Inputs of the cache harness.                                            *)
(***************************************************************************)
Prompts == { <<"A">>, <<" ", "b">>, <<"c">> }
HarnessModel == "m1"
\* LLMResponse: content and usage.cost (cost in integral units).
Responses == { [content |-> "x", cost |-> 1], [content |-> "y", cost |-> 2] }

\* The prompts the SemanticCache harness uses.
SemPrompts == { <<"A">>, <<" ", "b">> }

KeyOf(prompt) == GenerateKey(prompt, HarnessModel, DefaultTemperature)
HarnessKeys == { KeyOf(p) : p \in Prompts }

VARIABLES
  cacheImpl,  \* which cache class the harness drives: "memory" or "redis"
  now,        \* Date.now()
  mcache,     \* MemoryCache.cache: the Map's entries in insertion order
  mstats,     \* MemoryCache.stats
  mret,       \* what the last MemoryCache.get returned (Null: null)
  script,     \* history: shape of the calls made on the MemoryCache so far
  setKeys,    \* history: key -> response and time of its set call
  gotKeys,    \* history: keys got in the get phase of the script
  allHit,     \* history: every get of the script returned its key's response
  nominal     \* history: every call of the script found the store reachable,
              \* and every get came less than the TTL after its key's set

VARIABLES
  redisUp,    \* the Redis server is reachable
  store,      \* Redis: key -> Null or Some(stored entry with its expiry)
  savedStats, \* Redis: the value under statsKey (Null: absent)
  isOpen,     \* SemanticCache.redis.isOpen
  sstats,     \* SemanticCache.stats
  slast,      \* how the last call ended, when it was a SemanticCache.get
  prior       \* history: the server held persisted statistics at the start

VARIABLES
  cfg,        \* IntelligenceService.config of the running service
  gcache,     \* the MemoryCache of each generator: key -> response
  gopen,      \* redis.isOpen of the SemanticCache of each generator and of
              \* the service
  gsaved,     \* stats.costSavings of each generator's cache
  rstore,     \* the Redis store the generators share: key -> response
  serverUp,   \* that Redis server is reachable
  run,        \* the enhanceProject call in progress, or the last one
  out,        \* per task of that call: what it did and what it contributed
  faults,     \* provider calls that failed so far
  runs        \* enhanceProject calls so far

VARIABLES
  kreq,       \* two requests (prompt, model, temperature, additionalParams)
  kres        \* their keys, and what a get of the second returns after a
              \* set of the first on an empty cache (Null: not computed yet)

VARIABLES
  mdoc,       \* the OpenAPI document given to the minifier
  mspec,      \* the MinifiedSpec the last call returned (Null: none yet)
  mlast       \* the last call: its name, the tokenCount of its argument, and
              \* the token estimates before and after the stages it ran

\* Concurrent callers of one SemanticCache
VARIABLES
  calls,      \* per caller: the call in flight, where it is suspended, what it
              \* holds, and how its last call ended
  rhist       \* history: the last value a set wrote, whether a clear reached
              \* the server, whether server and client stayed up, the gets
              \* counted, the calls started

histVars == <<script, setKeys, gotKeys, allHit, nominal>>
memVars == <<mcache, mstats, mret>>
semVars == <<redisUp, store, savedStats, isOpen, sstats, slast>>
cacheVars == <<cacheImpl, now, memVars, semVars, histVars, prior>>
orchVars == <<cfg, gcache, gopen, gsaved, rstore, serverUp, run, out, faults, runs>>
keyVars == <<kreq, kres>>
minVars == <<mdoc, mspec, mlast>>
raceVars == <<calls, rhist>>
pureVars == <<keyVars, minVars, raceVars>>
vars == <<cacheVars, orchVars, pureVars>>

(***************************************************************************)
(* MemoryCache                                                             *)
(***************************************************************************)
ZeroStats == [totalRequests |-> 0, hits |-> 0, misses |-> 0, costSavings |-> 0]

\* Position of key k in the Map (0: absent).
RECURSIVE IndexOfFrom(_, _, _)
IndexOfFrom(c, k, i) ==
  IF i > Len(c) THEN 0 ELSE IF c[i].key = k THEN i ELSE IndexOfFrom(c, k, i + 1)
IndexOf(c, k) == IndexOfFrom(c, k, 1)

RemoveAt(c, i) == SubSeq(c, 1, i - 1) \o SubSeq(c, i + 1, Len(c))

\* Map.set: an existing key keeps its place, a new key goes last.
MapSet(c, e) ==
  LET i == IndexOf(c, e.key) IN IF i = 0 THEN Append(c, e) ELSE [c EXCEPT ![i] = e]

MapDelete(c, k) == LET i == IndexOf(c, k) IN IF i = 0 THEN c ELSE RemoveAt(c, i)

\* Mutant: the TTL comparison off by one.
isEntryValid_offByOne(e, t) == (t - e.created) + 1 < MemDefaultTTL

\* Mutant: the lifetime counts from the last access.
isEntryValid_fromAccess(e, t) == (t - e.accessed) < MemDefaultTTL

isEntryValid(e, t) == (t - e.created) < MemDefaultTTL

\* evictLRU's scan: oldestTime starts at Date.now(); an entry replaces the
\* candidate only when its access time is strictly smaller.
RECURSIVE OldestFrom(_, _, _, _)
OldestFrom(c, i, oldestKeyIx, oldestTime) ==
  IF i > Len(c) THEN oldestKeyIx
  ELSE IF c[i].accessed < oldestTime
       THEN OldestFrom(c, i + 1, i, c[i].accessed)
       ELSE OldestFrom(c, i + 1, oldestKeyIx, oldestTime)

evictLRU(c, t) ==
  LET i == OldestFrom(c, 1, 0, t) IN IF i = 0 THEN c ELSE RemoveAt(c, i)

MemSetCache(c, k, r, t) ==
  LET entry == [key |-> k, value |-> r, created |-> t, accessed |-> t, hits |-> 0]
      c1 == IF Len(c) >= MemMaxSize THEN evictLRU(c, t) ELSE c
  IN MapSet(c1, entry)

(* MemoryCache.get as a function of the state: the new Map, the new stats  *)
(* and the returned value.                                                 *)
MemGetStep(c, st, k, t) ==
  LET i == IndexOf(c, k) IN
  IF i # 0 /\ isEntryValid(c[i], t)
  THEN [cache |-> [c EXCEPT ![i].accessed = t, ![i].hits = @ + 1],
        stats |-> [st EXCEPT !.totalRequests = @ + 1, !.hits = @ + 1,
                             !.costSavings = @ + c[i].value.cost],
        ret |-> Some(c[i].value)]
  ELSE [cache |-> IF i # 0 THEN MapDelete(c, k) ELSE c,
        stats |-> [st EXCEPT !.totalRequests = @ + 1, !.misses = @ + 1],
        ret |-> Null]

\* cleanup(): the periodic sweep deletes every entry that is not valid.
MemCleanupCache(c, t) == SelectSeq(c, LAMBDA e : isEntryValid(e, t))

\* getStats(): updateHitRate, as the fraction <<hits, totalRequests>>.
HitRate(st) == IF st.totalRequests > 0 THEN <<st.hits, st.totalRequests>> ELSE <<0, 1>>
HitRateIsOne(st) == HitRate(st)[1] = HitRate(st)[2]

HistInit ==
  /\ script = "sets"
  /\ setKeys = <<>>
  /\ gotKeys = {}
  /\ allHit = TRUE
  /\ nominal = TRUE

MemInit ==
  /\ mcache = <<>>
  /\ mstats = ZeroStats
  /\ mret = Null

ScriptKeys == { setKeys[i].key : i \in 1..Len(setKeys) }
ScriptEntry(k) == CHOOSE i \in 1..Len(setKeys) : setKeys[i].key = k

\* The calls made so far no longer have the shape "N sets, then gets".
ScriptOff ==
  /\ script' = "off"
  /\ setKeys' = <<>>
  /\ gotKeys' = {}
  /\ allHit' = TRUE
  /\ nominal' = TRUE

MemSet(p, r) ==
  LET k == KeyOf(p) IN
  /\ cacheImpl = "memory"
  /\ mcache' = MemSetCache(mcache, k, r, now)
  /\ IF script = "sets" /\ k \notin ScriptKeys
     THEN /\ setKeys' = Append(setKeys, [key |-> k, value |-> r, at |-> now])
          /\ UNCHANGED <<script, gotKeys, allHit, nominal>>
     ELSE ScriptOff
  /\ UNCHANGED <<pureVars, orchVars, cacheImpl, prior, now, mstats, mret, semVars>>

MemGet(p) ==
  LET k == KeyOf(p)
      step == MemGetStep(mcache, mstats, k, now)
      inScript == script \in {"sets", "gets"} /\ k \in ScriptKeys /\ k \notin gotKeys
  IN
  /\ cacheImpl = "memory"
  /\ mstats.totalRequests < MaxRequests
  /\ mcache' = step.cache
  /\ mstats' = step.stats
  /\ mret' = step.ret
  /\ IF inScript
     THEN /\ script' = "gets"
          /\ gotKeys' = gotKeys \cup {k}
          /\ allHit' = (allHit /\ step.ret = Some(setKeys[ScriptEntry(k)].value))
          /\ nominal' = (nominal /\ (now - setKeys[ScriptEntry(k)].at) < MemDefaultTTL)
          /\ UNCHANGED setKeys
     ELSE ScriptOff
  /\ UNCHANGED <<pureVars, orchVars, cacheImpl, prior, now, semVars>>

MemClear ==
  /\ cacheImpl = "memory"
  /\ mcache # <<>>
  /\ mcache' = <<>>
  /\ ScriptOff
  /\ UNCHANGED <<pureVars, orchVars, cacheImpl, prior, now, mstats, mret, semVars>>

MemCleanup ==
  /\ cacheImpl = "memory"
  /\ mcache' = MemCleanupCache(mcache, now)
  /\ mcache' # mcache
  /\ UNCHANGED <<pureVars, orchVars, cacheImpl, prior, now, mstats, mret, semVars, histVars>>

Tick ==
  /\ now < MaxTime
  /\ now' = now + 1
  /\ UNCHANGED <<pureVars, orchVars, cacheImpl, prior, memVars, semVars, histVars>>

(***************************************************************************)
(* SemanticCache (Redis)                                                   *)
(***************************************************************************)
Rejected == "rejected"
Resolved == "resolved"

\* A stored value is live until Redis expires it (SETEX).
Live(st, k, t) == st[k] # Null /\ t < st[k][1].expires

\* connect(): opens the client and loads the persisted statistics
\* ({...this.stats, ...savedStats}); it rejects when the server is down.
ConnectOk(open, up) == open \/ up

StatsAfterConnect(open, st, saved) ==
  IF ~open /\ saved # Null THEN saved[1] ELSE st

\* updateEntryStats + SETEX with this.defaultTTL.
Touched(e, t) ==
  [e EXCEPT !.accessed = t, !.hits = @ + 1, !.expires = t + SemDefaultTTL]

\* metadata.created is written here and never read by get, set or clear; the
\* stored entry keeps the fields those read or update.  parses: the stored
\* text is valid JSON.  ttl (history): the TTL of the set that stored it.
NewStored(r, t, ttl) ==
  [value |-> r, accessed |-> t, hits |-> 0, expires |-> t + ttl, ttl |-> ttl,
   parses |-> TRUE]

\* set(): ttl || this.defaultTTL, for the optional argument ttl.
TtlToUse(ttl) == IF ttl = Null \/ ttl[1] = 0 THEN SemDefaultTTL ELSE ttl[1]

(* SemanticCache.get as a function of the state.  The connect at the start *)
(* of the call is outside the try block; so is totalRequests++.            *)
SemGetStep(open, up, st, stats, saved, k, t) ==
  IF ~ConnectOk(open, up)
  THEN [outcome |-> Rejected, ret |-> Null, open |-> FALSE, store |-> st,
        stats |-> stats]
  ELSE LET s0 == StatsAfterConnect(open, stats, saved)
           s1 == [s0 EXCEPT !.totalRequests = @ + 1]
       IN IF ~up
          THEN \* redis.get rejects: caught, counted as a miss
               [outcome |-> Resolved, ret |-> Null, open |-> TRUE, store |-> st,
                stats |-> [s1 EXCEPT !.misses = @ + 1]]
          ELSE IF Live(st, k, t) /\ ~st[k][1].parses
          THEN \* JSON.parse throws: caught, counted as a miss, nothing deleted
               [outcome |-> Resolved, ret |-> Null, open |-> TRUE, store |-> st,
                stats |-> [s1 EXCEPT !.misses = @ + 1]]
          ELSE IF Live(st, k, t)
          THEN [outcome |-> Resolved, ret |-> Some(st[k][1].value), open |-> TRUE,
                store |-> [st EXCEPT ![k] = Some(Touched(st[k][1], t))],
                stats |-> [s1 EXCEPT !.hits = @ + 1,
                                     !.costSavings = @ + st[k][1].value.cost]]
          ELSE [outcome |-> Resolved, ret |-> Null, open |-> TRUE, store |-> st,
                stats |-> [s1 EXCEPT !.misses = @ + 1]]

\* slast after a call that is not a get.
NoGet == [op |-> "other", outcome |-> Resolved, ret |-> Null, failed |-> FALSE,
          misses |-> 0]

\* The statistics an earlier process left under statsKey when it disconnected
\* after one get, a miss.
PriorStats == [totalRequests |-> 1, hits |-> 0, misses |-> 1, costSavings |-> 0]

\* A newly constructed SemanticCache; the server may hold the statistics of an
\* earlier process.
SemInit ==
  /\ redisUp \in BOOLEAN
  /\ store = [k \in HarnessKeys |-> Null]
  /\ savedStats \in {Null, Some(PriorStats)}
  /\ prior = (savedStats # Null)
  /\ isOpen = FALSE
  /\ sstats = ZeroStats
  /\ slast = NoGet

\* The statistics a get would start from.
EffectiveStats == StatsAfterConnect(isOpen, sstats, savedStats)

SemGet(p) ==
  LET k == KeyOf(p)
      step == SemGetStep(isOpen, redisUp, store, sstats, savedStats, k, now)
      inScript == script \in {"sets", "gets"} /\ k \in ScriptKeys /\ k \notin gotKeys
  IN
  /\ cacheImpl = "redis"
  /\ EffectiveStats.totalRequests < MaxRequests
  /\ Live(store, k, now) => store[k][1].hits < MaxRequests
  /\ isOpen' = step.open
  /\ store' = step.store
  /\ sstats' = step.stats
  /\ slast' = [op |-> "get", outcome |-> step.outcome, ret |-> step.ret,
               failed |-> ~redisUp, misses |-> step.stats.misses - EffectiveStats.misses]
  /\ IF inScript
     THEN /\ script' = "gets"
          /\ gotKeys' = gotKeys \cup {k}
          /\ allHit' = (allHit /\ step.outcome = Resolved
                               /\ step.ret = Some(setKeys[ScriptEntry(k)].value))
          /\ nominal' = (nominal /\ redisUp
                                 /\ (now - setKeys[ScriptEntry(k)].at) < SemDefaultTTL)
          /\ UNCHANGED setKeys
     ELSE ScriptOff
  /\ UNCHANGED <<pureVars, orchVars, cacheImpl, prior, now, redisUp, savedStats, memVars>>

\* set(): connect is outside the try block; a failing SETEX is caught.
SemSetWith(p, r, ttl) ==
  LET k == KeyOf(p)
      ok == ConnectOk(isOpen, redisUp)
  IN
  /\ cacheImpl = "redis"
  /\ isOpen' = ok
  /\ sstats' = IF ok THEN EffectiveStats ELSE sstats
  /\ store' = IF ok /\ redisUp
              THEN [store EXCEPT ![k] = Some(NewStored(r, now, TtlToUse(ttl)))]
              ELSE store
  /\ slast' = NoGet
  /\ IF script = "sets" /\ k \notin ScriptKeys
     THEN /\ setKeys' = Append(setKeys, [key |-> k, value |-> r, at |-> now])
          /\ nominal' = (nominal /\ redisUp)
          /\ UNCHANGED <<script, gotKeys, allHit>>
     ELSE ScriptOff
  /\ UNCHANGED <<pureVars, orchVars, cacheImpl, prior, now, redisUp, savedStats, memVars>>

\* set() without the ttl argument.
SemSet(p, r) == SemSetWith(p, r, Null)

\* Another writer leaves text that is not valid JSON under a cached key (SET
\* with KEEPTTL).
CorruptEntry(p) ==
  LET k == KeyOf(p) IN
  /\ cacheImpl = "redis"
  /\ redisUp
  /\ Live(store, k, now)
  /\ store[k][1].parses
  /\ store' = [store EXCEPT ![k] = Some([store[k][1] EXCEPT !.parses = FALSE])]
  /\ UNCHANGED <<pureVars, orchVars, cacheImpl, prior, now, redisUp, savedStats, isOpen, sstats, slast,
                 memVars, histVars>>

\* clear() without a pattern deletes every key matching "mcpgen:cache:*":
\* the entries, and the statistics key, which carries the same prefix.
SemClear ==
  LET ok == ConnectOk(isOpen, redisUp) IN
  /\ cacheImpl = "redis"
  /\ isOpen' = ok
  /\ sstats' = IF ok THEN EffectiveStats ELSE sstats
  /\ store' = IF ok /\ redisUp THEN [k \in HarnessKeys |-> Null] ELSE store
  /\ savedStats' = IF ok /\ redisUp THEN Null ELSE savedStats
  /\ slast' = NoGet
  /\ ScriptOff
  /\ UNCHANGED <<pureVars, orchVars, cacheImpl, prior, now, redisUp, memVars>>

\* disconnect(): saveStats, then close (errors are caught).
SemDisconnect ==
  /\ cacheImpl = "redis"
  /\ isOpen
  /\ isOpen' = FALSE
  /\ savedStats' = IF redisUp THEN Some(sstats) ELSE savedStats
  /\ slast' = NoGet
  /\ UNCHANGED <<pureVars, orchVars, cacheImpl, prior, now, redisUp, store, sstats, memVars, histVars>>

\* The server goes down or comes back.
RedisToggle ==
  /\ cacheImpl = "redis"
  /\ redisUp' = ~redisUp
  /\ UNCHANGED <<pureVars, orchVars, cacheImpl, prior, now, store, savedStats, isOpen, sstats, slast, memVars,
                 histVars>>

SemNext ==
  \/ \E p \in SemPrompts : SemGet(p)
  \/ \E p \in SemPrompts, r \in Responses : SemSet(p, r)
  \/ SemClear
  \/ SemDisconnect
  \/ RedisToggle

MemNext ==
  \/ \E p \in Prompts, r \in Responses : MemSet(p, r)
  \/ \E p \in Prompts : MemGet(p)
  \/ MemClear
  \/ MemCleanup

(***************************************************************************)
(* The enhancement orchestrator: IntelligenceService.enhanceProject with   *)
(* its DocumentationGenerator and ExampleGenerator.                        *)
(***************************************************************************)
(* The generators construct their caches with the default capacity and    *)
(* TTL (1000 entries, one hour; the configured ttl with Redis); the runs   *)
(* modelled use fewer keys than that and lie within one TTL, so a cache is *)
(* taken as the map from key to stored response.  A response cached as     *)
(* JSON.stringify(x) of plain data is read back by JSON.parse as x.        *)
\* enhanceProject is called at most MaxRuns times; at most MaxFaults provider
\* calls fail.
MaxRuns == 2
MaxFaults == 1

EmptyMap == << >>
MapPut(m, k, v) == [x \in DOMAIN m \cup {k} |-> IF x = k THEN v ELSE m[x]]

Min(a, b) == IF a < b THEN a ELSE b

\* llmProvider.constructor.name
ProviderClass(provider) ==
  IF provider = "openai" THEN "OpenAIProvider"
  ELSE IF provider = "anthropic" THEN "AnthropicProvider"
  ELSE "OllamaProvider"

\* getCapabilities().costPerToken, in units of 1e-8 dollars per token.
CostPerToken(provider, model) ==
  IF provider = "openai"
  THEN IF model = "gpt-4-turbo" THEN [input |-> 1000, output |-> 3000]
       ELSE IF model = "gpt-3.5-turbo" THEN [input |-> 150, output |-> 200]
       ELSE [input |-> 3000, output |-> 6000]
  ELSE IF provider = "anthropic"
  THEN IF model = "claude-3-opus-20240229" THEN [input |-> 1500, output |-> 7500]
       ELSE IF model = "claude-3-haiku-20240307" THEN [input |-> 25, output |-> 125]
       ELSE [input |-> 300, output |-> 1500]
  ELSE [input |-> 0, output |-> 0]

(* The IntelligenceConfig values: the presets of IntelligenceUtils, and the *)
(* basic preset with the overrides of the command line (model, max cost).  *)
(* maxMonthly is held in cents.                                            *)
BasicConfig ==
  [provider |-> "openai", model |-> "gpt-4-turbo", validator |-> Null, local |-> Null,
   redis |-> FALSE, features |-> {"documentation", "examples"}, maxMonthly |-> 50 * 100]

CliConfig == [BasicConfig EXCEPT !.model = "gpt-4", !.maxMonthly = 3]

DevConfig ==
  [provider |-> "ollama", model |-> "codellama",
   validator |-> Some([provider |-> "ollama", model |-> "llama3"]), local |-> Null,
   redis |-> FALSE,
   features |-> {"documentation", "examples", "implementation", "validation"},
   maxMonthly |-> 0]

ProductionConfig ==
  [provider |-> "anthropic", model |-> "claude-3-haiku-20240307",
   validator |-> Some([provider |-> "openai", model |-> "gpt-3.5-turbo"]), local |-> Null,
   redis |-> TRUE, features |-> {"documentation", "examples", "validation"},
   maxMonthly |-> 100 * 100]

\* The production preset with another primary model.
ProductionSonnetConfig == [ProductionConfig EXCEPT !.model = "claude-3-sonnet-20240229"]

\* The configurations a service is constructed with.
Configs == {CliConfig, DevConfig, ProductionConfig, ProductionSonnetConfig}

\* Configurations naming a model that no capabilities table lists, and a
\* provider that the factory does not know.
UnknownModelConfig == [CliConfig EXCEPT !.model = "gpt-5"]
UnknownProviderConfig == [CliConfig EXCEPT !.provider = "gemini"]
CandidateConfigs == Configs \cup {UnknownModelConfig, UnknownProviderConfig}

\* LLMProviderFactory.create: the class of the provider constructed (the
\* constructors take any model), or Null when it throws.
FactoryCreate(provider, model) ==
  IF provider \in {"openai", "anthropic", "ollama"}
  THEN Some(ProviderClass(provider)) ELSE Null

\* The constructor of IntelligenceService returns: the primary provider,
\* then the validator and the local provider if configured, are created.
Constructs(c) ==
  /\ FactoryCreate(c.provider, c.model) # Null
  /\ c.validator # Null => FactoryCreate(c.validator[1].provider, c.validator[1].model) # Null
  /\ c.local # Null => FactoryCreate(c.local[1].provider, c.local[1].model) # Null

(* The projects handed to enhanceProject, with what the run reads of the   *)
(* OpenAPI document: its description and the tokenCount of its minified    *)
(* form.  hasFiles: the object carries a files property, which the type    *)
(* GeneratedProject does not declare.                                      *)
Project1 ==
  [name |-> "p", version |-> "1", title |-> "api", desc |-> "d1", tools |-> <<"t1">>,
   tokenCount |-> 50, hasFiles |-> FALSE]
Project2 == [Project1 EXCEPT !.desc = "d2", !.tokenCount = 400]
Project3 == [Project1 EXCEPT !.hasFiles = TRUE]
Projects == {Project1, Project2, Project3}

\* The options argument: absent, or what the new command passes.
DefaultOptions ==
  [enhanceDocumentation |-> TRUE, generateExamples |-> TRUE,
   validateImplementation |-> TRUE, optimizePerformance |-> TRUE]
CliOptions ==
  [DefaultOptions EXCEPT !.validateImplementation = FALSE, !.optimizePerformance = FALSE]
OptionSets == {DefaultOptions, CliOptions}

Language == "typescript"

Task(kind, tool) == [kind |-> kind, tool |-> tool]

\* One task per tool, for the first max tools.
ToolTasks(kind, tools, max) ==
  [i \in 1..Min(Len(tools), max) |-> Task(kind, tools[i])]

\* generateEnhancedDocs: the tasks in the order they are awaited.
DocTasks(c, project) ==
  <<Task("readme", "")>>
  \o ToolTasks("toolDoc", project.tools, Len(project.tools))
  \o (IF "examples" \in c.features THEN ToolTasks("codeExample", project.tools, 5) ELSE <<>>)
  \o <<Task("errorGuide", "")>>
  \o <<Task("apiRef", "")>>

\* generateExamples with exampleTypes quickStart, integration, errorHandling.
ExampleTasks(project) ==
  <<Task("quickStart", "")>>
  \o ToolTasks("toolExample", project.tools, 3)
  \o <<Task("errorHandling", "")>>

\* enhanceProject: the tasks of a run, in order.
Plan(c, options, project) ==
  (IF "documentation" \in c.features /\ options.enhanceDocumentation
   THEN DocTasks(c, project) ELSE <<>>)
  \o (IF "examples" \in c.features /\ options.generateExamples
      THEN ExampleTasks(project) ELSE <<>>)
  \o (IF "validation" \in c.features /\ options.validateImplementation
      THEN <<Task("validation", "")>> ELSE <<>>)
  \o (IF "implementation" \in c.features /\ options.optimizePerformance
      THEN <<Task("optimization", "")>> ELSE <<>>)

\* Which object runs the task: a generator (with its own cache) or the service.
GeneratorOf(kind) ==
  IF kind \in {"readme", "toolDoc", "codeExample", "errorGuide", "apiRef"} THEN "doc"
  ELSE IF kind \in {"quickStart", "toolExample", "errorHandling", "advanced"} THEN "ex"
  ELSE "service"

\* The cacheKey string the task passes to cache.get and cache.set as prompt.
\* A tool is given by its name and has no description.
CacheLabel(task, project) ==
  CASE task.kind = "readme" -> <<"readme-", project.name, project.version>>
    [] task.kind = "toolDoc" -> <<"tool-doc-", task.tool, "undefined">>
    [] task.kind = "codeExample" -> <<"example-", task.tool, Language>>
    [] task.kind = "errorGuide" -> <<"error-guide-", project.name>>
    [] task.kind = "apiRef" -> <<"api-ref-", project.title, project.version>>
    [] task.kind = "quickStart" -> <<"quick-start-", project.name, Language>>
    [] task.kind = "toolExample" -> <<"tool-example-", task.tool, Language>>
    [] task.kind = "errorHandling" -> <<"error-handling-", project.name, Language>>
    [] OTHER -> <<"advanced-", project.name, Language>>

\* The key under which the task's response is cached.
TaskKey(task, c, project) ==
  GenerateKey(CacheLabel(task, project), ProviderClass(c.provider), DefaultTemperature)

\* The prompt sent to the provider, as the inputs rendered into it.
PromptOf(task, project) ==
  <<task.kind, project.name, project.version, project.title, project.desc, task.tool,
    Language>>

\* The options of provider.generate: maxTokens, temperature (in tenths).
SamplingParams(kind) ==
  CASE kind = "readme" -> [maxTokens |-> 2000, temperature |-> 3]
    [] kind = "toolDoc" -> [maxTokens |-> 1500, temperature |-> 2]
    [] kind = "codeExample" -> [maxTokens |-> 800, temperature |-> 4]
    [] kind = "errorGuide" -> [maxTokens |-> 1500, temperature |-> 2]
    [] kind = "apiRef" -> [maxTokens |-> 2500, temperature |-> 1]
    [] kind = "quickStart" -> [maxTokens |-> 500, temperature |-> 3]
    [] kind = "toolExample" -> [maxTokens |-> 400, temperature |-> 4]
    [] kind = "errorHandling" -> [maxTokens |-> 1000, temperature |-> 2]
    [] kind = "advanced" -> [maxTokens |-> 1500, temperature |-> 5]
    [] kind = "validation" -> [maxTokens |-> 1000, temperature |-> 1]
    [] OTHER -> [maxTokens |-> 800, temperature |-> 3]

\* The model the task's provider runs: validatorProvider || primaryProvider
\* for validation, localProvider || primaryProvider for optimization.
ModelFor(kind, c) ==
  IF kind = "validation" /\ c.validator # Null THEN c.validator[1].model
  ELSE IF kind = "optimization" /\ c.local # Null THEN c.local[1].model
  ELSE c.model

\* The request a task makes of its provider.
Request(task, c, project) ==
  [prompt |-> NormalizePrompt(PromptOf(task, project)),
   model |-> ModelFor(task.kind, c),
   params |-> SamplingParams(task.kind)]

\* What the provider generates is determined by the request it answers.
LLMResponseFor(req) == [content |-> req, cost |-> 1]

\* Mutant: the catch block of a task rethrows.
OnGenerateFailure_rethrow(kind) == "rethrow"

\* What the catch block of a task leaves in the result.
OnGenerateFailure(kind) ==
  CASE kind = "codeExample" -> "omitted"
    [] kind = "advanced" -> "null"
    [] kind = "optimization" -> "empty"
    [] OTHER -> "fallback"

\* How a provider call can end; validation and optimization JSON.parse the
\* raw response inside their try block.
GenerateOutcomes(kind) ==
  IF kind \in {"validation", "optimization"} THEN {"ok", "throw", "malformed"}
  ELSE {"ok", "throw"}

\* estimateEnhancementCost: estimatedTokens, doubled (validation adds half
\* of the base tokens).
RequestedFeatures(c, options) ==
  {f \in c.features :
     \/ f = "documentation" /\ options.enhanceDocumentation
     \/ f = "examples" /\ options.generateExamples
     \/ f = "validation" /\ options.validateImplementation}

EstimatedTokensX2(project, features) ==
  (IF "documentation" \in features THEN 4 * project.tokenCount ELSE 0)
  + (IF "examples" \in features THEN Len(project.tools) * 1000 ELSE 0)
  + (IF "validation" \in features THEN project.tokenCount ELSE 0)

\* estimateCost(0.7 * tokens, 0.3 * tokens), in units of 5e-10 dollars.
EstimatedCost(c, project, features) ==
  LET cpt == CostPerToken(c.provider, c.model)
  IN EstimatedTokensX2(project, features) * (7 * cpt.input + 3 * cpt.output)

\* One cent in the units of EstimatedCost.
UnitsPerCent == 20000000

\* estimate > maxMonthly
OverBudget(c, project, options) ==
  LET est == EstimatedCost(c, project, RequestedFeatures(c, options))
  IN \/ est \div UnitsPerCent > c.maxMonthly
     \/ est \div UnitsPerCent = c.maxMonthly /\ est % UnitsPerCent > 0

IdleRun ==
  [phase |-> "idle", project |-> Null, options |-> DefaultOptions, plan |-> <<>>,
   pc |-> 1, cause |-> "none", cost |-> 0, cleared |-> FALSE, afterClear |-> FALSE]

\* The objects that own a cache: the two generators and the service itself.
CacheOwners == {"doc", "ex", "service"}

\* new IntelligenceService(config): the generators get new caches.
OrchFresh ==
  /\ gcache = [g \in CacheOwners |-> EmptyMap]
  /\ gopen = [g \in CacheOwners |-> FALSE]
  /\ gsaved = [g \in CacheOwners |-> 0]
  /\ run = IdleRun
  /\ out = EmptyMap

\* new IntelligenceService({config}) with a configuration of Configs.
ServiceInit ==
  /\ cfg \in Configs
  /\ OrchFresh
  /\ rstore = EmptyMap
  /\ serverUp \in (IF cfg.redis THEN BOOLEAN ELSE {TRUE})
  /\ faults = 0
  /\ runs = 0

\* enhanceProject is called.
StartRun(project, options) ==
  /\ run.phase \notin {"running", "unconstructed"}
  /\ runs < MaxRuns
  /\ runs' = runs + 1
  /\ run' = [phase |-> "running", project |-> Some(project), options |-> options,
             plan |-> Plan(cfg, options, project), pc |-> 1, cause |-> "none",
             cost |-> 0, cleared |-> FALSE, afterClear |-> run.cleared]
  /\ out' = EmptyMap
  /\ UNCHANGED <<pureVars, cacheVars, cfg, gcache, gopen, gsaved, rstore, serverUp, faults>>

Abort(cause) ==
  /\ run' = [run EXCEPT !.phase = "rejected", !.cause = cause]
  /\ UNCHANGED <<out, gcache, gopen, gsaved, rstore, faults>>

\* The next task of the run, from its cache.get to its catch block.
RunTask(outcome) ==
  LET task == run.plan[run.pc]
      project == run.project[1]
      g == GeneratorOf(task.kind)
      cached == g # "service"
      key == TaskKey(task, cfg, project)
      req == Request(task, cfg, project)
      connectFails == cached /\ cfg.redis /\ ~gopen[g] /\ ~serverUp
      readable == IF ~cached THEN EmptyMap
                  ELSE IF cfg.redis THEN (IF serverUp THEN rstore ELSE EmptyMap)
                  ELSE gcache[g]
      hit == key \in DOMAIN readable
      response == LLMResponseFor(req)
      onFailure == OnGenerateFailure(task.kind)
      result(get, gen, set, src, content) ==
        [get |-> get, gen |-> gen, set |-> set, src |-> src, content |-> content]
      get == IF ~cached THEN "none" ELSE IF hit THEN "hit" ELSE "miss"
      next == [run EXCEPT !.pc = @ + 1]
      opened == IF cached /\ cfg.redis THEN [gopen EXCEPT ![g] = TRUE] ELSE gopen
  IN
  /\ run.phase = "running"
  /\ run.pc <= Len(run.plan)
  /\ outcome \in GenerateOutcomes(task.kind)
  /\ IF connectFails
     THEN \* cache.get rejects, outside the task's try block
          outcome = "ok" /\ Abort("cache")
     ELSE IF task.kind = "validation" /\ ~project.hasFiles
     THEN \* Object.keys(project.files) throws, outside the try block
          outcome = "ok" /\ Abort("prompt")
     ELSE IF hit
     THEN /\ outcome = "ok"
          /\ out' = MapPut(out, task,
                           result(get, "none", FALSE, "cache", Some(readable[key].content)))
          /\ run' = next
          /\ gopen' = opened
          /\ gsaved' = [gsaved EXCEPT ![g] = @ + readable[key].cost]
          /\ UNCHANGED <<gcache, rstore, faults>>
     ELSE IF outcome = "ok"
     THEN /\ out' = MapPut(out, task,
                           result(get, "ok", cached, "llm", Some(response.content)))
          /\ run' = next
          /\ gopen' = opened
          /\ gcache' = IF cached /\ ~cfg.redis
                       THEN [gcache EXCEPT ![g] = MapPut(@, key, response)] ELSE gcache
          /\ rstore' = IF cached /\ cfg.redis /\ serverUp
                       THEN MapPut(rstore, key, response) ELSE rstore
          /\ UNCHANGED <<faults, gsaved>>
     ELSE /\ faults < MaxFaults
          /\ faults' = faults + 1
          /\ IF onFailure = "rethrow"
             THEN /\ run' = [run EXCEPT !.phase = "rejected", !.cause = "provider"]
                  /\ UNCHANGED <<out, gopen>>
             ELSE /\ out' = MapPut(out, task, result(get, outcome, FALSE, onFailure, Null))
                  /\ run' = next
                  /\ gopen' = opened
          /\ UNCHANGED <<gcache, gsaved, rstore>>
  /\ UNCHANGED <<pureVars, cacheVars, cfg, serverUp, runs>>

\* totalCost of enhanceProject: the documentation block adds the costSavings
\* its generator's getStats() reports; no other block adds to it.
TotalCost(c, options, saved) ==
  IF "documentation" \in c.features /\ options.enhanceDocumentation
  THEN saved["doc"] ELSE 0

\* The last task is done: enhanceProject returns the aggregate, with
\* intelligence.cost = totalCost.
Resolve ==
  /\ run.phase = "running"
  /\ run.pc > Len(run.plan)
  /\ run' = [run EXCEPT !.phase = "resolved",
                        !.cost = TotalCost(cfg, run.options, gsaved)]
  /\ UNCHANGED <<pureVars, cacheVars, cfg, out, gcache, gopen, gsaved, rstore, serverUp,
                 faults, runs>>

\* IntelligenceService.clearCache(), between two calls of enhanceProject:
\* clear() on the cache the service constructed for itself.  With Redis the
\* service's client deletes every key under the prefix the generators share
\* (connect rejects when the server is down and the client is closed; a
\* failing keys/del is caught and logged); a MemoryCache empties its own Map.
ClearCache ==
  LET rejects == cfg.redis /\ ~gopen["service"] /\ ~serverUp
  IN
  /\ run.phase \in {"idle", "resolved", "rejected"}
  /\ ~run.cleared
  /\ run' = [run EXCEPT !.cleared = ~rejects]
  /\ gcache' = [gcache EXCEPT !["service"] = EmptyMap]
  /\ gopen' = IF cfg.redis /\ ~rejects THEN [gopen EXCEPT !["service"] = TRUE] ELSE gopen
  /\ rstore' = IF cfg.redis /\ serverUp THEN EmptyMap ELSE rstore
  /\ UNCHANGED <<pureVars, cacheVars, cfg, out, gsaved, serverUp, faults, runs>>

\* A new process constructs a service with configuration c; when the
\* constructor throws there is no service to call.
Restart(c) ==
  /\ run.phase \in {"resolved", "rejected", "unconstructed"}
  /\ runs < MaxRuns
  /\ c # cfg
  /\ cfg' = c
  /\ gcache' = [g \in CacheOwners |-> EmptyMap]
  /\ gopen' = [g \in CacheOwners |-> FALSE]
  /\ gsaved' = [g \in CacheOwners |-> 0]
  /\ run' = IF Constructs(c) THEN IdleRun ELSE [IdleRun EXCEPT !.phase = "unconstructed"]
  /\ out' = EmptyMap
  /\ UNCHANGED <<pureVars, cacheVars, rstore, serverUp, faults, runs>>

\* The Redis server of the generators goes down or comes back, between two
\* calls of enhanceProject.
ServerToggle ==
  /\ cfg.redis
  /\ run.phase # "running"
  /\ serverUp' = ~serverUp
  /\ UNCHANGED <<pureVars, cacheVars, cfg, out, run, gcache, gopen, gsaved, rstore, faults,
                 runs>>

\* No key derivation is probed.
KeyIdle ==
  /\ kreq = Null
  /\ kres = Null

\* The minifier is not called.
MinIdle ==
  /\ mdoc = Null
  /\ mspec = Null
  /\ mlast = Null

\* The callers of the concurrent harness.
Callers == {1, 2}

NoResult == [outcome |-> "none", src |-> "none", generated |-> FALSE, setRejected |-> FALSE]
IdleCall == [op |-> "none", pc |-> "idle", stage |-> "none", read |-> Null, val |-> Null,
             ret |-> NoResult]
NoHistory == [lastSet |-> Null, cleared |-> FALSE, calm |-> TRUE, gets |-> 0, started |-> 0]

\* No concurrent caller is driven.
RaceIdle ==
  /\ calls = [c \in Callers |-> IdleCall]
  /\ rhist = NoHistory

PureIdle ==
  /\ KeyIdle
  /\ MinIdle
  /\ RaceIdle

\* No SemanticCache is driven.
SemIdle ==
  /\ redisUp = TRUE
  /\ store = [k \in HarnessKeys |-> Null]
  /\ savedStats = Null
  /\ prior = FALSE
  /\ isOpen = FALSE
  /\ sstats = ZeroStats
  /\ slast = NoGet

\* No service is driven.
OrchIdle ==
  /\ cfg = BasicConfig
  /\ OrchFresh
  /\ rstore = EmptyMap
  /\ serverUp = TRUE
  /\ faults = 0
  /\ runs = 0

CacheInit ==
  /\ cacheImpl \in {"memory", "redis"}
  /\ now = 0
  /\ MemInit
  /\ HistInit
  /\ IF cacheImpl = "redis" THEN SemInit ELSE SemIdle
  /\ OrchIdle
  /\ PureIdle

CacheNext == MemNext \/ SemNext \/ Tick

SpecCache == CacheInit /\ [][CacheNext]_vars

\* No cache is driven directly.
CacheIdle ==
  /\ cacheImpl = "memory"
  /\ now = 0
  /\ MemInit
  /\ HistInit
  /\ SemIdle

OrchNext ==
  \/ \E p \in Projects, o \in OptionSets : StartRun(p, o)
  \/ \E outcome \in {"ok", "throw", "malformed"} : RunTask(outcome)
  \/ Resolve
  \/ ClearCache
  \/ \E c \in CandidateConfigs : Restart(c)
  \/ ServerToggle

OrchInit ==
  /\ ServiceInit
  /\ CacheIdle
  /\ PureIdle

SpecOrch == OrchInit /\ [][OrchNext]_vars

(***************************************************************************)
(* One SemanticCache entry: sets with and without the ttl argument, gets,  *)
(* the clock, and a writer that corrupts the stored text.                  *)
(***************************************************************************)
EntryPrompt == <<"A">>
\* A ttl argument longer than defaultTTL.
CustomTTL == 3
EntryTTLs == {Null, Some(CustomTTL)}

EntryInit ==
  /\ cacheImpl = "redis"
  /\ now = 0
  /\ MemInit
  /\ HistInit
  /\ SemIdle
  /\ OrchIdle
  /\ PureIdle

EntryNext ==
  \/ \E r \in Responses, ttl \in EntryTTLs : SemSetWith(EntryPrompt, r, ttl)
  \/ SemGet(EntryPrompt)
  \/ CorruptEntry(EntryPrompt)
  \/ Tick

SpecEntry == EntryInit /\ [][EntryNext]_vars

(***************************************************************************)
(* Key derivation on pairs of requests: generateKey, and a set with the    *)
(* first request followed by a get with the second on an empty cache.      *)
(***************************************************************************)
KeyPrompts ==
  { <<"a", " ", "b">>, <<" ", "A", " ", " ", "B">>, <<"a", "\t", "b", " ">>,
    <<"a", "b">> }
KeyModels == {"m1", "m2"}
KeyTemperatures == {DefaultTemperature, 2}
\* additionalParams objects, as lists of members.
KeyParams ==
  { <<>>, << <<"model", "m2">> >>, << <<"a", 1>>, <<"b", 2>> >>,
    << <<"b", 2>>, <<"a", 1>> >> }
KeyRequests ==
  [prompt : KeyPrompts, model : KeyModels, temperature : KeyTemperatures,
   params : KeyParams]

RequestKey(q) == GenerateKeyWith(q.prompt, q.model, q.temperature, q.params)

ProbeResponse == [content |-> "x", cost |-> 1]

\* MemoryCache: set(q1, response) then get(q2) on an empty cache.
MemSetThenGet(q1, q2) ==
  MemGetStep(MemSetCache(<<>>, RequestKey(q1), ProbeResponse, 0), ZeroStats,
             RequestKey(q2), 0).ret

\* SemanticCache: set(q1, response) then get(q2) on an empty, reachable store.
SemSetThenGet(q1, q2) ==
  LET k1 == RequestKey(q1)
      k2 == RequestKey(q2)
      st == [k \in {k1, k2} |->
               IF k = k1 THEN Some(NewStored(ProbeResponse, 0, SemDefaultTTL)) ELSE Null]
  IN SemGetStep(TRUE, TRUE, st, ZeroStats, Null, k2, 0).ret

KeyInit ==
  /\ kreq \in KeyRequests \X KeyRequests
  /\ kres = Null
  /\ MinIdle
  /\ RaceIdle
  /\ CacheIdle
  /\ OrchIdle

KeyProbe ==
  /\ kres = Null
  /\ kres' = Some([key1 |-> RequestKey(kreq[1]), key2 |-> RequestKey(kreq[2]),
                   mem |-> MemSetThenGet(kreq[1], kreq[2]),
                   sem |-> SemSetThenGet(kreq[1], kreq[2])])
  /\ UNCHANGED <<kreq, minVars, raceVars, cacheVars, orchVars>>

KeyNext == KeyProbe

SpecKey == KeyInit /\ [][KeyNext]_vars

(***************************************************************************)
(* OpenAPIMinifier.  A string is kept as its length, an optional string is *)
(* Null (undefined) or Some(length).  The JsonLen operators give the       *)
(* length of JSON.stringify of each part of a MinifiedSpec; undefined      *)
(* members are not written.                                                *)
(***************************************************************************)
\* estimateTokens: Math.ceil(content.length / 4)
estimateTokens(length) == (length + 3) \div 4

\* truncateDescription: undefined and "" give undefined; a longer
\* description is cut to maxLength characters and "..." is appended.
truncateDescription(description, maxLength) ==
  IF description = Null \/ description[1] = 0 THEN Null
  ELSE IF description[1] > maxLength THEN Some(maxLength + 3)
  ELSE description

RECURSIVE SumLen(_)
SumLen(lens) == IF lens = <<>> THEN 0 ELSE Head(lens) + SumLen(Tail(lens))

\* Elements or members separated by commas.
Joined(lens) == SumLen(lens) + (IF Len(lens) > 1 THEN Len(lens) - 1 ELSE 0)

\* An optional string member: ,"name":"value" or nothing.
Member(overhead, v) == IF v = Null THEN 0 ELSE overhead + v[1]

Digits(n) == IF n < 10 THEN 1 ELSE IF n < 100 THEN 2 ELSE IF n < 1000 THEN 3 ELSE 4

MethodLen(method) == IF method = "GET" THEN 3 ELSE 4

\* {"name":"..","in":"query","type":"string","description":".."}
JsonLenParameter(p) == 40 + p.name + Member(17, p.description)

\* "200":{"description":".."}
JsonLenResponse(r) == 8 + Member(16, r.description)

\* {"method":"..","operationId":"op1","summary":"..","parameters":[..],
\*  "responses":{..}}
JsonLenOperation(op) ==
  28 + MethodLen(op.method)
  + (IF op.operationId = Null THEN 0 ELSE 20)
  + Member(13, op.summary)
  + (IF op.parameters = Null THEN 0
     ELSE 16 + Joined([i \in DOMAIN op.parameters[1] |->
                         JsonLenParameter(op.parameters[1][i])]))
  + Joined([i \in DOMAIN op.responses |-> JsonLenResponse(op.responses[i])])

\* {"path":"..","operations":[..]}
JsonLenPath(p) ==
  27 + p.path + Joined([i \in DOMAIN p.operations |-> JsonLenOperation(p.operations[i])])

\* "Name":{"type":"object","properties":{"p01":{"type":"string"},..}}
JsonLenSchema(s) ==
  s.name + 20
  + (IF s.properties = Null THEN 0
     ELSE 16 + Joined([i \in 1..s.properties[1] |-> 23]))

\* {"title":"..","version":"..","description":".."}
JsonLenInfo(info) == 25 + info.title + info.version + Member(17, info.description)

JsonLenSchemas(schemas) == Joined([i \in DOMAIN schemas |-> JsonLenSchema(schemas[i])])

\* {"info":{..},"paths":[..],"schemas":{..},"tokenCount":N}
JsonLenSpec(m) ==
  47 + JsonLenInfo(m.info)
  + Joined([i \in DOMAIN m.paths |-> JsonLenPath(m.paths[i])])
  + JsonLenSchemas(m.schemas)
  + Digits(m.tokenCount)

\* The estimate of a specification as it would be serialized now.
Estimate(m) == estimateTokens(JsonLenSpec(m))

minifyParameters(parameters) ==
  IF parameters = Null THEN Null
  ELSE Some([i \in DOMAIN parameters[1] |->
               [name |-> parameters[1][i].name,
                description |-> truncateDescription(parameters[1][i].description, 50)]])

minifyResponses(responses) ==
  [i \in DOMAIN responses |->
     [description |-> truncateDescription(responses[i].description, 100)]]

minifyOperation(op) ==
  [method |-> op.method,
   operationId |-> op.operationId,
   summary |-> truncateDescription(op.summary, 200),
   parameters |-> minifyParameters(op.parameters),
   responses |-> minifyResponses(op.responses)]

minifyPaths(paths) ==
  LET withOps == SelectSeq(paths, LAMBDA p : Len(p.operations) > 0) IN
  [i \in DOMAIN withOps |->
     [path |-> withOps[i].path,
      operations |-> [j \in DOMAIN withOps[i].operations |->
                        minifyOperation(withOps[i].operations[j])]]]

\* minifySchema keeps type and properties; the description is dropped.
minifySchemas(schemas) ==
  [i \in DOMAIN schemas |-> [name |-> schemas[i].name, properties |-> schemas[i].properties]]

minify(spec) ==
  LET minified == [info |-> [title |-> spec.info.title,
                             version |-> spec.info.version,
                             description |-> truncateDescription(spec.info.description, 200)],
                   paths |-> minifyPaths(spec.paths),
                   schemas |-> minifySchemas(spec.schemas),
                   tokenCount |-> 0]
  IN [minified EXCEPT !.tokenCount = estimateTokens(JsonLenSpec(minified))]

filterPathsByOperations(paths, operationIds) ==
  LET relevant(op) == op.operationId # Null /\ op.operationId[1] \in operationIds
      filtered == [i \in DOMAIN paths |->
                     [paths[i] EXCEPT !.operations = SelectSeq(@, relevant)]]
  IN SelectSeq(filtered, LAMBDA p : Len(p.operations) > 0)

minifyForOperation(spec, operationIds) ==
  [info |-> [title |-> spec.info.title, version |-> spec.info.version,
             description |-> Null],
   paths |-> minifyPaths(filterPathsByOperations(spec.paths, operationIds)),
   schemas |-> minifySchemas(spec.schemas),
   tokenCount |-> 0]

\* removeDescriptions: every member named description is deleted.
removeDescriptions(spec) ==
  [spec EXCEPT
     !.info.description = Null,
     !.paths = [i \in DOMAIN @ |->
        [@[i] EXCEPT !.operations = [j \in DOMAIN @ |->
           [@[j] EXCEPT
              !.parameters = IF @ = Null THEN Null
                             ELSE Some([k \in DOMAIN @[1] |->
                                          [@[1][k] EXCEPT !.description = Null]]),
              !.responses = [k \in DOMAIN @ |-> [@[k] EXCEPT !.description = Null]]]]]]]

\* simplifySchemas: a schema with more than 10 properties keeps its first 5.
simplifySchemas(spec) ==
  [spec EXCEPT !.schemas = [i \in DOMAIN @ |->
     IF @[i].properties # Null /\ @[i].properties[1] > 10
     THEN [@[i] EXCEPT !.properties = Some(5)]
     ELSE @[i]]]

\* The score reduceOperations sorts by: GET counts 2, another method 1, an
\* operationId 1 more.
RECURSIVE ScoreFrom(_, _)
ScoreFrom(ops, i) ==
  IF i > Len(ops) THEN 0
  ELSE (IF ops[i].method = "GET" THEN 2 ELSE 1)
       + (IF ops[i].operationId # Null THEN 1 ELSE 0)
       + ScoreFrom(ops, i + 1)
Score(p) == ScoreFrom(p.operations, 1)

\* Mutant: the paths are not sorted.
SortByScore_unsorted(paths) == paths

\* Array.prototype.sort with (a, b) => bScore - aScore: stable, descending.
RECURSIVE InsertByScore(_, _)
InsertByScore(sorted, p) ==
  IF sorted = <<>> THEN <<p>>
  ELSE IF Score(Head(sorted)) >= Score(p)
       THEN <<Head(sorted)>> \o InsertByScore(Tail(sorted), p)
       ELSE <<p>> \o sorted

RECURSIVE SortByScore(_)
SortByScore(paths) ==
  IF paths = <<>> THEN <<>>
  ELSE InsertByScore(SortByScore(SubSeq(paths, 1, Len(paths) - 1)), paths[Len(paths)])

\* The loop of reduceOperations: paths are kept while
\* currentTokens + pathTokens <= maxTokens * 0.9.
RECURSIVE KeepPaths(_, _, _)
KeepPaths(sortedPaths, currentTokens, maxTokens) ==
  IF sortedPaths = <<>> THEN <<>>
  ELSE LET pathTokens == estimateTokens(JsonLenPath(Head(sortedPaths))) IN
       IF 10 * (currentTokens + pathTokens) <= 9 * maxTokens
       THEN <<Head(sortedPaths)>>
            \o KeepPaths(Tail(sortedPaths), currentTokens + pathTokens, maxTokens)
       ELSE <<>>

reduceOperations(spec, maxTokens) ==
  LET sortedPaths == SortByScore(spec.paths)
      \* {"info":{..},"schemas":{..}}
      currentTokens == estimateTokens(22 + JsonLenInfo(spec.info) + JsonLenSchemas(spec.schemas))
  IN [spec EXCEPT !.paths = KeepPaths(sortedPaths, currentTokens, maxTokens)]

(* optimizeForTokenLimit: the returned specification, with the estimates   *)
(* of the specification on entry and after each stage that ran.            *)
optimizeForTokenLimit(minified, maxTokens) ==
  LET s1 == removeDescriptions(minified)
      s2 == simplifySchemas(s1)
      s3 == reduceOperations(s2, maxTokens)
      e0 == Estimate(minified)
  IN IF minified.tokenCount <= maxTokens
     THEN [spec |-> minified, estimates |-> <<e0>>]
     ELSE IF Estimate(s1) <= maxTokens
     THEN [spec |-> [s1 EXCEPT !.tokenCount = Estimate(s1)],
           estimates |-> <<e0, Estimate(s1)>>]
     ELSE IF Estimate(s2) <= maxTokens
     THEN [spec |-> [s2 EXCEPT !.tokenCount = Estimate(s2)],
           estimates |-> <<e0, Estimate(s1), Estimate(s2)>>]
     ELSE [spec |-> [s3 EXCEPT !.tokenCount = Estimate(s3)],
           estimates |-> <<e0, Estimate(s1), Estimate(s2), Estimate(s3)>>]

(***************************************************************************)
(* The minifier on a family of documents: one or two paths of one          *)
(* operation each, with descriptions at and just over the ceilings.        *)
(* A path is named by the length of its name.                              *)
(***************************************************************************)
\* Titles have 1 to MaxTitle characters.
MaxTitle == 4

DocDescriptions == {Null, Some(200), Some(201)}
DocSummaries == {Null, Some(201)}
DocParameters ==
  {Null, Some(<<[name |-> 1, description |-> Some(50)]>>),
         Some(<<[name |-> 1, description |-> Some(51)]>>)}
DocResponseDescriptions == {Some(0), Some(100), Some(101)}
DocSchemas ==
  { <<>>,
    <<[name |-> 1, properties |-> Some(3), description |-> Some(30)]>>,
    <<[name |-> 1, properties |-> Some(11), description |-> Some(30)]>> }

\* The shapes of the paths object: one POST path; a POST path followed by
\* a GET path with an operationId; two POST paths of different names.
DocShapes == {"one", "postGet", "postPost"}

DocPaths(shape, summary, parameters, responseDescription) ==
  LET post(name) ==
        [path |-> name,
         operations |-> <<[method |-> "POST", operationId |-> Null,
                           summary |-> summary, parameters |-> parameters,
                           responses |-> <<[description |-> responseDescription]>>]>>]
      get == [path |-> 2,
              operations |-> <<[method |-> "GET", operationId |-> Some(1),
                                summary |-> summary, parameters |-> parameters,
                                responses |-> <<[description |-> responseDescription]>>]>>]
  IN CASE shape = "one" -> <<post(2)>>
       [] shape = "postGet" -> <<post(2), get>>
       [] OTHER -> <<post(2), post(3)>>

Documents ==
  { [info |-> [title |-> t, version |-> 1, description |-> d],
     paths |-> DocPaths(n, s, p, r),
     schemas |-> c] :
      t \in 1..MaxTitle, d \in DocDescriptions, n \in DocShapes, s \in DocSummaries,
      p \in DocParameters, r \in DocResponseDescriptions, c \in DocSchemas }

\* The maxTokens arguments.
TokenLimits == {35, 120, 400}

MinInit ==
  /\ mdoc \in Documents
  /\ mspec = Null
  /\ mlast = Null
  /\ KeyIdle
  /\ RaceIdle
  /\ CacheIdle
  /\ OrchIdle

Minify ==
  /\ mspec = Null
  /\ mspec' = Some(minify(mdoc))
  /\ mlast' = Some([op |-> "minify", tokenCount |-> 0, estimates |-> <<>>])
  /\ UNCHANGED <<mdoc, keyVars, raceVars, cacheVars, orchVars>>

MinifyForOperation(operationIds) ==
  /\ mspec = Null
  /\ mspec' = Some(minifyForOperation(mdoc, operationIds))
  /\ mlast' = Some([op |-> "minifyForOperation", tokenCount |-> 0, estimates |-> <<>>])
  /\ UNCHANGED <<mdoc, keyVars, raceVars, cacheVars, orchVars>>

Optimize(maxTokens) ==
  LET result == optimizeForTokenLimit(mspec[1], maxTokens) IN
  /\ mspec # Null
  /\ mspec' = Some(result.spec)
  /\ mlast' = Some([op |-> "optimizeForTokenLimit", tokenCount |-> mspec[1].tokenCount,
                    estimates |-> result.estimates])
  /\ UNCHANGED <<mdoc, keyVars, raceVars, cacheVars, orchVars>>

MinNext ==
  \/ Minify
  \/ \E operationIds \in SUBSET {1} : MinifyForOperation(operationIds)
  \/ \E maxTokens \in TokenLimits : Optimize(maxTokens)

SpecMin == MinInit /\ [][MinNext]_vars

(***************************************************************************)
(* Concurrent callers of one SemanticCache on one key.  A call runs until  *)
(* it awaits the Redis server or the provider; the step that follows is    *)
(* the reply and the code up to the next await.  Calls are get, set,       *)
(* clear, and a generator task (cache.get, provider.generate, cache.set);  *)
(* another party may close the client (cleanup) and the server may go      *)
(* down.  redis.isOpen is true from the call of redis.connect() on.        *)
(***************************************************************************)
\* At most MaxCalls calls are started.
MaxCalls == 3

RaceKey == KeyOf(EntryPrompt)
RaceOps == {"get", "set", "clear", "task"}
\* The response argument of a call.
RaceArgs(op) == IF op = "set" THEN {Some(r) : r \in Responses} ELSE {Null}

\* What the concurrent harness leaves alone.
raceFrame == <<keyVars, minVars, orchVars, cacheImpl, now, memVars, histVars, prior, slast>>

Quiescent == \A c \in Callers : calls[c].pc = "idle"

\* A command sent now is answered.
Reachable == isOpen /\ redisUp

\* Which cache method the call is in.
StageOf(op) == IF op \in {"get", "task"} THEN "get" ELSE IF op = "set" THEN "set" ELSE "none"

\* Where a call is suspended once its connect() has returned.
AfterConnect(op, stage) ==
  IF op = "clear" THEN "clearing" ELSE IF stage = "get" THEN "reading" ELSE "writing"

\* get: this.stats.totalRequests++ follows connect().
Counted(stats, stage) ==
  IF stage = "get" THEN [stats EXCEPT !.totalRequests = @ + 1] ELSE stats

Finished(call, outcome, src, generated, setRejected) ==
  [IdleCall EXCEPT !.ret = [outcome |-> outcome, src |-> src, generated |-> generated,
                            setRejected |-> setRejected]]

\* A call starts and runs to its first await: connect() returns at once on
\* an open client, starts redis.connect() on a closed one, and rejects when
\* the server is down.
RaceCall(c, op, val) ==
  LET stage == StageOf(op)
      call == [op |-> op, pc |-> "loading", stage |-> stage, read |-> Null, val |-> val,
               ret |-> NoResult]
  IN
  /\ cacheImpl = "redis"
  /\ calls[c].pc = "idle"
  /\ rhist.started < MaxCalls
  /\ IF isOpen
     THEN /\ calls' = [calls EXCEPT ![c] = [call EXCEPT !.pc = AfterConnect(op, stage)]]
          /\ sstats' = Counted(sstats, stage)
          /\ rhist' = [rhist EXCEPT !.started = @ + 1,
                                    !.gets = @ + (IF stage = "get" THEN 1 ELSE 0)]
          /\ UNCHANGED isOpen
     ELSE IF redisUp
     THEN /\ calls' = [calls EXCEPT ![c] = call]
          /\ isOpen' = TRUE
          /\ rhist' = [rhist EXCEPT !.started = @ + 1]
          /\ UNCHANGED sstats
     ELSE /\ calls' = [calls EXCEPT ![c] = Finished(call, Rejected, "none", FALSE, FALSE)]
          /\ rhist' = [rhist EXCEPT !.started = @ + 1]
          /\ UNCHANGED <<isOpen, sstats>>
  /\ UNCHANGED <<raceFrame, redisUp, store, savedStats>>

\* redis.connect() and loadStats() of the connecting call complete: the
\* saved statistics replace this.stats, and the call goes on.
RaceLoad(c) ==
  LET call == calls[c]
      loaded == IF Reachable /\ savedStats # Null THEN savedStats[1] ELSE sstats
  IN
  /\ call.pc = "loading"
  /\ sstats' = Counted(loaded, call.stage)
  /\ rhist' = [rhist EXCEPT !.gets = @ + (IF call.stage = "get" THEN 1 ELSE 0)]
  /\ calls' = [calls EXCEPT ![c].pc = AfterConnect(call.op, call.stage)]
  /\ UNCHANGED <<raceFrame, isOpen, redisUp, store, savedStats>>

\* The reply to redis.get(key): a miss ends the get (and sends a task to the
\* provider); on a hit the call holds the parsed entry and awaits
\* updateEntryStats.
RaceRead(c) ==
  LET call == calls[c]
      found == Reachable /\ Live(store, RaceKey, now) /\ store[RaceKey][1].parses
  IN
  /\ call.pc = "reading"
  /\ IF found
     THEN /\ calls' = [calls EXCEPT ![c].pc = "touching", ![c].read = store[RaceKey]]
          /\ UNCHANGED sstats
     ELSE /\ sstats' = [sstats EXCEPT !.misses = @ + 1]
          /\ calls' = [calls EXCEPT ![c] =
                         IF call.op = "get"
                         THEN Finished(call, Resolved, "none", FALSE, FALSE)
                         ELSE [call EXCEPT !.pc = "generating"]]
  /\ UNCHANGED <<raceFrame, rhist, isOpen, redisUp, store, savedStats>>

\* updateEntryStats: SETEX of the entry the call read, with defaultTTL (a
\* failure is caught); then hits++ and the cached value is returned.
RaceTouch(c) ==
  LET call == calls[c]
      entry == call.read[1]
  IN
  /\ call.pc = "touching"
  /\ store' = IF Reachable THEN [store EXCEPT ![RaceKey] = Some(Touched(entry, now))]
              ELSE store
  /\ sstats' = [sstats EXCEPT !.hits = @ + 1, !.costSavings = @ + entry.value.cost]
  /\ calls' = [calls EXCEPT ![c] = Finished(call, Resolved, "cache", FALSE, FALSE)]
  /\ UNCHANGED <<raceFrame, rhist, isOpen, redisUp, savedStats>>

\* provider.generate settles: a failure goes to the catch block of the
\* task; a response goes to cache.set, whose connect() is outside the try
\* block of set but inside that of the task.
RaceGenerate(c, response) ==
  LET call == calls[c]
      next == [call EXCEPT !.stage = "set", !.val = response]
  IN
  /\ call.pc = "generating"
  /\ IF response = Null
     THEN /\ calls' = [calls EXCEPT ![c] = Finished(call, Resolved, "fallback", FALSE, FALSE)]
          /\ UNCHANGED isOpen
     ELSE IF isOpen
     THEN /\ calls' = [calls EXCEPT ![c] = [next EXCEPT !.pc = "writing"]]
          /\ UNCHANGED isOpen
     ELSE IF redisUp
     THEN /\ calls' = [calls EXCEPT ![c] = [next EXCEPT !.pc = "loading"]]
          /\ isOpen' = TRUE
     ELSE /\ calls' = [calls EXCEPT ![c] = Finished(call, Resolved, "fallback", TRUE, TRUE)]
          /\ UNCHANGED isOpen
  /\ UNCHANGED <<raceFrame, rhist, redisUp, store, sstats, savedStats>>

\* set: the reply to SETEX (a failure is caught).
RaceWrite(c) ==
  LET call == calls[c] IN
  /\ call.pc = "writing"
  /\ store' = IF Reachable
              THEN [store EXCEPT ![RaceKey] = Some(NewStored(call.val[1], now, SemDefaultTTL))]
              ELSE store
  /\ rhist' = IF Reachable THEN [rhist EXCEPT !.lastSet = call.val] ELSE rhist
  /\ calls' = [calls EXCEPT ![c] =
                 IF call.op = "task" THEN Finished(call, Resolved, "llm", TRUE, FALSE)
                 ELSE Finished(call, Resolved, "none", FALSE, FALSE)]
  /\ UNCHANGED <<raceFrame, isOpen, redisUp, sstats, savedStats>>

\* clear: KEYS and DEL of everything under the prefix (a failure is caught).
RaceClear(c) ==
  LET call == calls[c] IN
  /\ call.pc = "clearing"
  /\ store' = IF Reachable THEN [k \in HarnessKeys |-> Null] ELSE store
  /\ savedStats' = IF Reachable THEN Null ELSE savedStats
  /\ rhist' = IF Reachable THEN [rhist EXCEPT !.lastSet = Null, !.cleared = TRUE] ELSE rhist
  /\ calls' = [calls EXCEPT ![c] = Finished(call, Resolved, "none", FALSE, FALSE)]
  /\ UNCHANGED <<raceFrame, isOpen, redisUp, sstats>>

\* cleanup() by the owner of the cache: disconnect() saves the statistics
\* and closes the client.
RaceDisconnect ==
  /\ cacheImpl = "redis"
  /\ isOpen
  /\ isOpen' = FALSE
  /\ savedStats' = IF redisUp THEN Some(sstats) ELSE savedStats
  /\ rhist' = [rhist EXCEPT !.calm = FALSE]
  /\ UNCHANGED <<raceFrame, calls, redisUp, store, sstats>>

\* The server goes down or comes back.
RaceToggle ==
  /\ cacheImpl = "redis"
  /\ redisUp' = ~redisUp
  /\ rhist' = [rhist EXCEPT !.calm = FALSE]
  /\ UNCHANGED <<raceFrame, calls, isOpen, store, sstats, savedStats>>

RaceInit ==
  /\ cacheImpl = "redis"
  /\ now = 0
  /\ MemInit
  /\ HistInit
  /\ redisUp = TRUE
  /\ store = [k \in HarnessKeys |-> Null]
  /\ savedStats \in {Null, Some(PriorStats)}
  /\ prior = (savedStats # Null)
  /\ isOpen = FALSE
  /\ sstats = ZeroStats
  /\ slast = NoGet
  /\ RaceIdle
  /\ OrchIdle
  /\ KeyIdle
  /\ MinIdle

RaceNext ==
  \/ \E c \in Callers, op \in RaceOps : \E val \in RaceArgs(op) : RaceCall(c, op, val)
  \/ \E c \in Callers : RaceLoad(c)
  \/ \E c \in Callers : RaceRead(c)
  \/ \E c \in Callers : RaceTouch(c)
  \/ \E c \in Callers, response \in {Null} \cup {Some(r) : r \in Responses} :
       RaceGenerate(c, response)
  \/ \E c \in Callers : RaceWrite(c)
  \/ \E c \in Callers : RaceClear(c)
  \/ RaceDisconnect
  \/ RaceToggle

SpecRace == RaceInit /\ [][RaceNext]_vars

(***************************************************************************)
(* Claims about the caches, checked under SpecCache.                       *)
(***************************************************************************)
KeysIn(c) == { c[i].key : i \in 1..Len(c) }

\* C1: SemanticCache.get never rejects; when the store is unreachable or a
\* store operation fails, the get resolves to null and counts one miss.
C1_GetNeverRejects ==
  slast.op = "get" =>
    /\ slast.outcome = Resolved
    /\ slast.failed => (slast.ret = Null /\ slast.misses = 1)

\* C8: in a full MemoryCache a set for a new key removes exactly one entry,
\* the one with the oldest last-accessed time; a hit makes its entry the most
\* recently accessed one.
C8_SetOnFull ==
  (Len(mcache) = MemMaxSize /\ KeysIn(mcache') \ KeysIn(mcache) # {}) =>
    \E i \in 1..Len(mcache) :
      /\ KeysIn(mcache) \ KeysIn(mcache') = {mcache[i].key}
      /\ \A j \in 1..Len(mcache) : mcache[i].accessed <= mcache[j].accessed

C8_HitRefreshes ==
  (mstats'.hits = mstats.hits + 1) =>
    \E i \in 1..Len(mcache') :
      /\ Some(mcache'[i].value) = mret'
      /\ mcache'[i].accessed = now
      /\ \A j \in 1..Len(mcache') : mcache'[j].accessed <= mcache'[i].accessed

C8_EvictsLeastRecentlyAccessed == [][C8_SetOnFull /\ C8_HitRefreshes]_vars

\* C9: a MemoryCache never holds more than maxSize entries.
C9_AtMostMaxSize == Len(mcache) <= MemMaxSize

\* C10 as stated: on a fresh cache, after N sets on N distinct keys and N gets
\* on those keys, every get was a hit returning the stored response and
\* hitRate is 1.0, for every N >= 1.
CurStats == IF cacheImpl = "memory" THEN mstats ELSE sstats

C10_Premise ==
  /\ script = "gets"
  /\ nominal
  /\ cacheImpl = "memory" => Len(setKeys) <= MemMaxSize
  /\ cacheImpl = "redis" => ~prior

C11_ClearEmpties ==
  /\ MemClear => mcache' = <<>>
  /\ (SemClear /\ ConnectOk(isOpen, redisUp)) =>
       \A k \in HarnessKeys : store'[k] = Null

C11_GetOnAbsentMisses ==
  /\ \A p \in Prompts :
       (MemGet(p) /\ IndexOf(mcache, KeyOf(p)) = 0) =>
         /\ mret' = Null
         /\ mstats'.misses = mstats.misses + 1
  /\ \A p \in SemPrompts :
       (SemGet(p) /\ store[KeyOf(p)] = Null /\ slast'.outcome = Resolved) =>
         /\ slast'.ret = Null
         /\ slast'.misses = 1

C11_ClearedKeyMisses == [][C11_ClearEmpties /\ C11_GetOnAbsentMisses]_vars

\* C12: totalRequests is the number of get calls made on the cache instance
\* and hits + misses = totalRequests; set and clear change none of the three
\* counters.  Stated step by step: the counters start at zero, a get that
\* resolves adds one to totalRequests, a set or a clear leaves totalRequests,
\* hits and misses as they were, and hits + misses = totalRequests throughout.
Counters(st) == <<st.totalRequests, st.hits, st.misses>>

C12_Balanced == CurStats.hits + CurStats.misses = CurStats.totalRequests

C12_Step ==
  /\ \A p \in Prompts :
       MemGet(p) => mstats'.totalRequests = mstats.totalRequests + 1
  /\ ((\E p \in Prompts, r \in Responses : MemSet(p, r)) \/ MemClear) =>
       Counters(mstats') = Counters(mstats)
  /\ \A p \in SemPrompts :
       (SemGet(p) /\ slast'.outcome = Resolved) =>
         sstats'.totalRequests = sstats.totalRequests + 1
  /\ ((\E p \in SemPrompts, r \in Responses : SemSet(p, r)) \/ SemClear) =>
       Counters(sstats') = Counters(sstats)

C12_CountersFollowGets == []C12_Balanced /\ [][C12_Step]_vars

\* C13: costSavings is the sum, over the get calls that were hits, of the
\* cost recorded for the returned entry; a miss, a set and a clear leave it
\* unchanged.  Stated step by step: costSavings starts at zero, a hit adds the
\* cost of the response it returns, every other call leaves it as it was.
C13_Step ==
  /\ \A p \in Prompts :
       MemGet(p) =>
         mstats'.costSavings =
           mstats.costSavings + (IF mret' = Null THEN 0 ELSE mret'[1].cost)
  /\ ((\E p \in Prompts, r \in Responses : MemSet(p, r)) \/ MemClear) =>
       mstats'.costSavings = mstats.costSavings
  /\ \A p \in SemPrompts :
       (SemGet(p) /\ slast'.outcome = Resolved) =>
         sstats'.costSavings =
           sstats.costSavings + (IF slast'.ret = Null THEN 0 ELSE slast'.ret[1].cost)
  /\ ((\E p \in SemPrompts, r \in Responses : SemSet(p, r)) \/ SemClear) =>
       sstats'.costSavings = sstats.costSavings

C13_CostSavingsSumsHits == [][C13_Step]_vars

(***************************************************************************)
(* Claims about one SemanticCache entry, checked under SpecEntry.          *)
(***************************************************************************)
EntryKey == KeyOf(EntryPrompt)

\* The step is a get that returned a response.
IsHit == SemGet(EntryPrompt) /\ slast'.outcome = Resolved /\ slast'.ret # Null

\* C14: every SemanticCache hit re-writes the entry with a fresh TTL, the
\* last-accessed time updated, the hit counter one higher and the response
\* unchanged (so after n hits in a row the counter is n), and an entry that
\* is hit at intervals shorter than the TTL it was stored with never expires.
C14_HitRewrites ==
  IsHit =>
    /\ store'[EntryKey] # Null
    /\ store'[EntryKey][1].value = store[EntryKey][1].value
    /\ store'[EntryKey][1].accessed = now
    /\ store'[EntryKey][1].hits = store[EntryKey][1].hits + 1
    /\ store'[EntryKey][1].expires = now + store[EntryKey][1].ttl

C14_NeverExpires ==
  (/\ SemGet(EntryPrompt)
   /\ store[EntryKey] # Null
   /\ store[EntryKey][1].parses
   /\ now - store[EntryKey][1].accessed < store[EntryKey][1].ttl) =>
    slast'.ret = Some(store[EntryKey][1].value)

C14_SlidingExpiration == [][C14_HitRewrites /\ C14_NeverExpires]_vars

\* C15: when the stored text of an entry fails to deserialize, get purges the
\* entry and reports a miss: the corrupted entry is absent after the get.
C15_Step ==
  (/\ SemGet(EntryPrompt)
   /\ Live(store, EntryKey, now)
   /\ ~store[EntryKey][1].parses) =>
    /\ slast'.ret = Null
    /\ slast'.misses = 1
    /\ store'[EntryKey] = Null

C15_CorruptEntryPurged == [][C15_Step]_vars

(***************************************************************************)
(* Claims about key derivation, checked under SpecKey.                     *)
(***************************************************************************)
\* The words of a prompt: its maximal runs of non-whitespace characters,
\* letter case folded.
RECURSIVE SplitWords(_, _)
SplitWords(s, cur) ==
  LET done == IF cur = <<>> THEN <<>> ELSE <<cur>> IN
  IF s = <<>> THEN done
  ELSE IF IsSpace(Head(s)) THEN done \o SplitWords(Tail(s), <<>>)
  ELSE SplitWords(Tail(s), Append(cur, ToLower(Head(s))))

\* Two prompts differ at most in letter case, in leading or trailing
\* whitespace, and in the length of their runs of whitespace.
SameWords(p, q) == SplitWords(p, <<>>) = SplitWords(q, <<>>)

SameModelAndParams(q1, q2) ==
  /\ q1.model = q2.model
  /\ q1.temperature = q2.temperature
  /\ q1.params = q2.params

\* C16: for both caches, two prompts that differ only in letter case, in
\* leading or trailing whitespace, or in the length of whitespace runs give
\* the same key when model and sampling parameters are equal, and a set with
\* one followed by a get with the other is a hit on the stored response.
C16_NormalizationInvariance ==
  (/\ kres # Null
   /\ SameWords(kreq[1].prompt, kreq[2].prompt)
   /\ SameModelAndParams(kreq[1], kreq[2])) =>
    /\ kres[1].key1 = kres[1].key2
    /\ kres[1].mem = Some(ProbeResponse)
    /\ kres[1].sem = Some(ProbeResponse)

C16_Witness ==
  /\ kres # Null
  /\ kreq[1].prompt # kreq[2].prompt
  /\ SameWords(kreq[1].prompt, kreq[2].prompt)
  /\ SameModelAndParams(kreq[1], kreq[2])
  /\ kres[1].mem = Some(ProbeResponse)
  /\ kres[1].sem = Some(ProbeResponse)

\* C17: two requests have the same key if and only if their normalized
\* prompts, their model ids and their sampling parameters (temperature and
\* additional parameters) are all equal.
ParamsOf(q) == { q.params[i] : i \in 1..Len(q.params) }

SameRequest(q1, q2) ==
  /\ NormalizePrompt(q1.prompt) = NormalizePrompt(q2.prompt)
  /\ q1.model = q2.model
  /\ q1.temperature = q2.temperature
  /\ ParamsOf(q1) = ParamsOf(q2)

C17_KeyIdentifiesRequest ==
  kres # Null => ((kres[1].key1 = kres[1].key2) <=> SameRequest(kreq[1], kreq[2]))

(***************************************************************************)
(* Claims about the minifier, checked under SpecMin.                       *)
(***************************************************************************)
LastCall == mlast[1]
Returned == mspec[1]

\* C18: in optimizeForTokenLimit the token estimate of the specification
\* after each stage (descriptions removed, schemas simplified, paths reduced)
\* is no greater than the estimate before that stage, and the tokenCount of
\* the returned specification is no greater than the tokenCount of the one
\* passed in.
C18_StagesNeverGrow ==
  \A i \in 1..(Len(LastCall.estimates) - 1) :
    LastCall.estimates[i + 1] <= LastCall.estimates[i]

C18_OptimizeNeverGrows ==
  (mlast # Null /\ LastCall.op = "optimizeForTokenLimit") =>
    /\ C18_StagesNeverGrow
    /\ Returned.tokenCount <= LastCall.tokenCount

\* C19: every specification returned by minify, minifyForOperation or
\* optimizeForTokenLimit carries a tokenCount equal to
\* ceil(serialized length / 4) of the returned structure.
C19_TokenCountIsEstimate ==
  mspec # Null => Returned.tokenCount = Estimate(Returned)

\* C20: in every specification produced by minify, the info description and
\* every operation summary have at most 200 characters, every parameter
\* description at most 50 and every response description at most 100.
AtMost(v, n) == v = Null \/ v[1] <= n

C20_DescriptionCeilings ==
  (mlast # Null /\ LastCall.op = "minify") =>
    /\ AtMost(Returned.info.description, 200)
    /\ \A i \in DOMAIN Returned.paths :
         \A j \in DOMAIN Returned.paths[i].operations :
           LET op == Returned.paths[i].operations[j] IN
           /\ AtMost(op.summary, 200)
           /\ op.parameters # Null =>
                \A k \in DOMAIN op.parameters[1] :
                  AtMost(op.parameters[1][k].description, 50)
           /\ \A k \in DOMAIN op.responses : AtMost(op.responses[k].description, 100)

(***************************************************************************)
(* Claims about the orchestrator, checked under SpecOrch.                  *)
(***************************************************************************)
Done == DOMAIN out
Planned == { run.plan[i] : i \in 1..Len(run.plan) }
CurrentRequest(t) == Request(t, cfg, run.project[1])

\* C2: a provider call that throws for one task does not abort the run: the
\* run goes on to the next task with the outputs of the other tasks and the
\* caches untouched, a run is never rejected because of a provider error, a
\* run resolves only after every planned task was attempted, and the output of
\* every task whose provider call succeeded is the one derived from its own
\* response.
C2_Outputs ==
  /\ run.phase = "rejected" => run.cause # "provider"
  /\ run.phase = "resolved" => Done = Planned
  /\ \A t \in Done :
       out[t].gen = "ok" =>
         /\ out[t].src = "llm"
         /\ out[t].content = Some(LLMResponseFor(CurrentRequest(t)).content)

C2_Step ==
  (faults' = faults + 1) =>
    /\ run'.phase = "running"
    /\ run'.pc = run.pc + 1
    /\ \A t \in Done : t \in DOMAIN out' /\ out'[t] = out[t]
    /\ UNCHANGED <<gcache, rstore>>

C2_ProviderFailureIsolated == []C2_Outputs /\ [][C2_Step]_vars

C2_Witness ==
  /\ run.phase = "resolved"
  /\ \E i, j \in 1..Len(run.plan) :
       /\ i < j
       /\ out[run.plan[i]].gen = "throw"
       /\ out[run.plan[j]].gen = "ok"

\* C3: every task whose provider call threw contributes fallback content to
\* the result; none is omitted or left null.
C3_FailedTaskHasFallback ==
  \A t \in Done : out[t].gen = "throw" => out[t].src = "fallback"

\* C4: a cache failure never aborts an enhancement run.
C4_CacheFailureNeverAborts ==
  run.phase = "rejected" => run.cause # "cache"

\* C5: every task attempts cache.get before provider.generate, calls the
\* provider only on a miss, follows a successful generate by cache.set, and
\* never calls the provider on a hit.
C5_GetGenerateSet ==
  \A t \in Done :
    /\ out[t].get # "none"
    /\ out[t].gen # "none" => out[t].get = "miss"
    /\ out[t].gen = "ok" => out[t].set
    /\ out[t].get = "hit" => out[t].gen = "none"

\* C6: a cached response is reused for a task only when the request that
\* stored it had the task's normalized prompt, model id and sampling
\* parameters.
C6_HitOnlyForSameRequest ==
  \A t \in Done :
    out[t].get = "hit" => out[t].content = Some(LLMResponseFor(CurrentRequest(t)).content)

\* C7: a run whose pre-flight cost estimate exceeds config.costs.maxMonthly
\* is refused with a budget-exceeded error and makes no provider call.
C7_RefusedOverBudget ==
  (run.phase # "idle" /\ OverBudget(cfg, run.project[1], run.options)) =>
    /\ \A t \in Done : out[t].gen = "none"
    /\ run.phase # "resolved"
    /\ run.phase = "rejected" => run.cause = "budget"
RECURSIVE MissCostFrom(_, _)
\* The usage.cost of the responses the provider generated for the tasks that
\* missed the cache, from position i of the plan on.
MissCostFrom(plan, i) ==
  IF i > Len(plan) THEN 0
  ELSE (IF plan[i] \in Done /\ out[plan[i]].get = "miss" /\ out[plan[i]].gen = "ok"
        THEN LLMResponseFor(CurrentRequest(plan[i])).cost ELSE 0)
       + MissCostFrom(plan, i + 1)

\* C21: the cost a resolved run reports is the sum of usage.cost of the
\* responses the provider generated on the cache misses of that run; hits
\* add nothing.
C21_CostIsWhatMissesPaid ==
  run.phase = "resolved" => run.cost = MissCostFrom(run.plan, 1)

\* C29: a run started after clearCache() resolved gets no cache hit: every
\* hit would come from a response stored by an earlier run.
C29_NoHitAfterClearCache ==
  run.afterClear => \A t \in Done : out[t].get # "hit"


\* The model ids the capabilities table of each provider lists.
KnownModels(provider) ==
  CASE provider = "openai" -> {"gpt-4", "gpt-4-turbo", "gpt-3.5-turbo"}
    [] provider = "anthropic" ->
         {"claude-3-opus-20240229", "claude-3-sonnet-20240229", "claude-3-haiku-20240307"}
    [] provider = "ollama" -> {"codellama", "llama3", "mistral"}
    [] OTHER -> {}

KnownLLM(provider, model) == model \in KnownModels(provider)

KnownConfig(c) ==
  /\ KnownLLM(c.provider, c.model)
  /\ c.validator # Null => KnownLLM(c.validator[1].provider, c.validator[1].model)
  /\ c.local # Null => KnownLLM(c.local[1].provider, c.local[1].model)

\* C22: constructing a service with an unknown provider kind or an unknown
\* model id fails: no service exists that could call a provider or a cache.
C22_UnknownConfigFailsConstruction ==
  ~KnownConfig(cfg) => run.phase = "unconstructed"


\* The score the specification gives a path.
PriorityOf(p) ==
  2 * Cardinality({i \in DOMAIN p.operations : p.operations[i].method = "GET"})
  + Cardinality({i \in DOMAIN p.operations : p.operations[i].method # "GET"})
  + Cardinality({i \in DOMAIN p.operations : p.operations[i].operationId # Null})

\* The paths by descending score, ties in their original order.
Ranked(paths) ==
  LET n == Len(paths)
      pi == CHOOSE f \in [1..n -> 1..n] :
              \A a, b \in 1..n : a < b =>
                \/ PriorityOf(paths[f[a]]) > PriorityOf(paths[f[b]])
                \/ PriorityOf(paths[f[a]]) = PriorityOf(paths[f[b]]) /\ f[a] < f[b]
  IN [k \in 1..n |-> paths[pi[k]]]

RECURSIVE PrefixTokens(_, _, _)
\* estimate(info + schemas) plus the estimates of the first m paths.
PrefixTokens(spec, ranked, m) ==
  IF m = 0
  THEN estimateTokens(22 + JsonLenInfo(spec.info) + JsonLenSchemas(spec.schemas))
  ELSE PrefixTokens(spec, ranked, m - 1) + estimateTokens(JsonLenPath(ranked[m]))

\* The longest prefix every path of which fits into 90% of maxTokens.
LongestFit(spec, maxTokens) ==
  LET ranked == Ranked(spec.paths)
      fits(m) == \A j \in 1..m : 10 * PrefixTokens(spec, ranked, j) <= 9 * maxTokens
      m == CHOOSE k \in 0..Len(ranked) :
             fits(k) /\ \A j \in (k + 1)..Len(ranked) : ~fits(j)
  IN SubSeq(ranked, 1, m)

\* The call of optimizeForTokenLimit reached the path reduction.
Reduced == LastCall.op = "optimizeForTokenLimit" /\ Len(LastCall.estimates) = 4

C25_Step ==
  \A maxTokens \in TokenLimits :
    (Optimize(maxTokens) /\ Len(mlast'[1].estimates) = 4) =>
      mspec'[1].paths
        = LongestFit(simplifySchemas(removeDescriptions(mspec[1])), maxTokens)

\* C25: path reduction keeps, of the paths ordered by descending score with
\* ties in their original order, the longest prefix that fits into 90% of
\* maxTokens together with info and schemas, and no path after the first
\* that does not fit.
C25_PathReductionKeepsBestPrefix == [][C25_Step]_vars

\* A reduction that moved the GET path in front of the POST path and kept
\* it alone.
C25_Witness ==
  /\ mlast # Null /\ mspec # Null
  /\ Reduced
  /\ Len(mdoc.paths) = 2
  /\ mdoc.paths[1].operations[1].method = "POST"
  /\ Len(Returned.paths) = 1
  /\ Returned.paths[1].operations[1].method = "GET"


\* The entry of key k in the Map was created at least one TTL ago.
Expired(c, k, t) == IndexOf(c, k) # 0 /\ t - c[IndexOf(c, k)].created >= MemDefaultTTL

C26_GetStep ==
  \A p \in Prompts :
    MemGet(p) =>
      /\ Expired(mcache, KeyOf(p), now) => mret' = Null /\ IndexOf(mcache', KeyOf(p)) = 0
      /\ mret' # Null =>
            mcache'[IndexOf(mcache', KeyOf(p))].created
              = mcache[IndexOf(mcache, KeyOf(p))].created

C26_SweepStep ==
  MemCleanup =>
    \A k \in HarnessKeys :
      IndexOf(mcache', k) # 0 <=> (IndexOf(mcache, k) # 0 /\ ~Expired(mcache, k, now))

\* C26: a MemoryCache get of an entry created a TTL or more ago deletes it
\* and misses; a hit leaves the creation time as it was; the sweep removes
\* exactly the expired entries.
C26_ExpiredNeverReturned == [][C26_GetStep /\ C26_SweepStep]_vars

\* A key was set, and its first get, a TTL later, missed and left no entry.
C26_Witness ==
  /\ cacheImpl = "memory"
  /\ script = "gets"
  /\ ~nominal
  /\ ~allHit
  /\ mret = Null
  /\ mstats.misses = 1
  /\ mcache = <<>>


(***************************************************************************)
(* Claims about concurrent callers, checked under SpecRace.                *)
(***************************************************************************)
\* The statistics the server held when the client first connected.
PersistedRequests == IF prior THEN PriorStats.totalRequests ELSE 0

\* C23: for one missing key at most one provider.generate is in flight; a
\* second caller awaits the first caller's result.
C23_SingleFlight ==
  Cardinality({c \in Callers : calls[c].pc = "generating"}) <= 1

\* C24: once every call in flight has completed, the value stored under the
\* key is the response of the most recent set.
C24_LastWriteWins ==
  (Quiescent /\ rhist.lastSet # Null /\ store[RaceKey] # Null) =>
    store[RaceKey][1].value = rhist.lastSet[1]

\* C27: with server and client up throughout, once every get has completed
\* totalRequests is the persisted count plus the number of gets, and
\* hits + misses = totalRequests.
C27_NoLostIncrement ==
  (Quiescent /\ isOpen /\ rhist.calm /\ ~rhist.cleared) =>
    /\ sstats.totalRequests = PersistedRequests + rhist.gets
    /\ sstats.hits + sstats.misses = sstats.totalRequests

\* C28: after a clear that reached the server and no set since, once every
\* call in flight has completed the store holds no entry for the key.
C28_ClearedStaysCleared ==
  (Quiescent /\ rhist.cleared /\ rhist.lastSet = Null) => store[RaceKey] = Null

\* C30: a task whose provider call succeeded and whose cache.set rejected
\* returns output derived from the provider's response.
C30_SetRejectionKeepsResponse ==
  \A c \in Callers :
    (calls[c].ret.generated /\ calls[c].ret.setRejected) => calls[c].ret.src = "llm"


====
